---- MODULE Spec2Model ----
(***************************************************************************)
(* Neuroimaging MCP server (mcp/src/server.py): the five tool functions    *)
(* fsl_bet_brain_extraction, fsl_fast_segmentation, fsl_flirt_registration,*)
(* mrtrix_dwi2fod and freesurfer_recon_all, the filesystem they look at    *)
(* and the niwrap collaborator they call.                                  *)
(*                                                                         *)
(* A tool function is a coroutine.  Its code between two awaits runs       *)
(* without another coroutine of the event loop in between, so each action  *)
(* below is one such stretch of code; the filesystem is shared with the    *)
(* rest of the machine, which acts between any two actions.                *)
(*                                                                         *)
(* Paths are sequences of name components below the directory the server   *)
(* works in (<<>>, which always exists).  fractional_intensity is counted  *)
(* in tenths (5 is 0.5).  A formatted message f"text: {v}" is the pair     *)
(* <<"text: ", v>>.                                                        *)
(***************************************************************************)
EXTENDS Integers, Sequences, FiniteSets, TLC

\* ------------------------------------------------------------------ bounds
\* Number of changes the rest of the machine makes to the filesystem while
\* one caller invokes tools one after the other (Spec), and while two
\* callers' invocations are interleaved by the event loop (ConcSpec).
MaxEnvSteps == 2
MaxConcEnvSteps == 1

\* The callers whose invocations the event loop interleaves.
Callers == {"c1", "c2"}

\* ------------------------------------------------------- program constants
OUTPUT_DIR == <<"data", "outputs">>
DEFAULT_SUBJECTS_DIR == <<"data", "freesurfer_subjects">>
DEFAULT_OUTPUT_FILE == <<"registered.nii.gz">>
DEFAULT_OUTPUT_FOD == <<"wmfod.mif">>
DEFAULT_FRACTIONAL_INTENSITY == 5
DEFAULT_TISSUE_CLASSES == 3
DEFAULT_DOF == 12
\* A dwi2fod whose default algorithm is the multi-tissue one (mutant of
\* DEFAULT_ALGORITHM).
DefaultAlgorithmMsmt == "msmt_csd"
DEFAULT_ALGORITHM == "csd"

BET == "fsl_bet_brain_extraction"
FAST == "fsl_fast_segmentation"
FLIRT == "fsl_flirt_registration"
DWI2FOD == "mrtrix_dwi2fod"
RECON == "freesurfer_recon_all"
Tools == {BET, FAST, FLIRT, DWI2FOD, RECON}

\* --------------------------------------------------------------- filesystem
ImageA == <<"t1.nii.gz">>
ImageB == <<"ref.nii.gz">>
WorkDir == <<"work">>

\* The paths whose presence the model tracks; every other path is absent,
\* except <<>>, which is a directory.
FsPaths == {ImageA, ImageB, <<"data">>, OUTPUT_DIR, DEFAULT_SUBJECTS_DIR, WorkDir}

Kind(f, p) == IF p = <<>> THEN "dir" ELSE IF p \in DOMAIN f THEN f[p] ELSE "absent"

Parent(p) == SubSeq(p, 1, Len(p) - 1)

\* Path.is_file() in place of Path.exists() (mutant of Exists).
ExistsAsFile(f, p) == Kind(f, p) = "file"

\* Path.exists(): any filesystem object at the path counts.
Exists(f, p) == Kind(f, p) # "absent"

\* os.path.dirname of an output path.
Dirname(p) == Parent(p)

NoExc == [type |-> "None"]

\* Path.mkdir(parents=True, exist_ok=True): [fs, exc].
RECURSIVE MkdirParents(_, _)
MkdirParents(f, p) ==
    IF Kind(f, p) = "dir" THEN [fs |-> f, exc |-> NoExc]
    ELSE IF Kind(f, p) = "file"
    THEN [fs |-> f, exc |-> [type |-> "FileExistsError", msg |-> <<"File exists: ", p>>, context |-> NoExc]]
    ELSE IF Kind(f, Parent(p)) = "file"
    THEN [fs |-> f, exc |-> [type |-> "NotADirectoryError", msg |-> <<"Not a directory: ", p>>, context |-> NoExc]]
    ELSE LET up == IF Kind(f, Parent(p)) = "dir" THEN [fs |-> f, exc |-> NoExc]
                   ELSE MkdirParents(f, Parent(p))
         IN  IF up.exc # NoExc THEN up
             ELSE [fs |-> [up.fs EXCEPT ![p] = "dir"], exc |-> NoExc]

\* ------------------------------------------------------------ the requests
\* A keyword argument the caller leaves out, and one it supplies.
Omitted == [given |-> FALSE]
Given(v) == [given |-> TRUE, v |-> v]

\* The value a parameter with a default is bound to.
\* A binding that ignores what the caller supplied (mutant of Arg).
ArgDefaultOnly(a, default) == default

Arg(a, default) == IF a.given THEN a.v ELSE default

\* What callers send: the required arguments and, per tool, either no option
\* at all or every option.
BetCalls ==
    {[tool |-> BET, input_file |-> ImageA, output_prefix |-> Omitted,
      fractional_intensity |-> o[1], generate_binary_mask |-> o[2]] :
        o \in {<<Omitted, Omitted>>, <<Given(3), Given(FALSE)>>, <<Given(5), Given(TRUE)>>}}
FastCalls ==
    {[tool |-> FAST, input_file |-> ImageA, output_prefix |-> Omitted,
      tissue_classes |-> c] : c \in {Omitted, Given(2)}}
FlirtCalls ==
    {[tool |-> FLIRT, input_file |-> ImageA, reference_file |-> ImageB,
      output_file |-> o[1], dof |-> o[2]] :
        o \in {<<Omitted, Omitted>>, <<Given(WorkDir \o <<"out.nii.gz">>), Given(5)>>,
               <<Omitted, Given(0)>>, <<Omitted, Given(6)>>}}
Dwi2fodCalls ==
    {[tool |-> DWI2FOD, dwi_file |-> ImageA, response_file |-> ImageB,
      output_fod |-> o[1], algorithm |-> o[2]] :
        o \in {<<Omitted, Omitted>>, <<Given(WorkDir \o <<"fod.mif">>), Given("msmt_csd")>>}}
ReconCalls ==
    {[tool |-> RECON, input_file |-> ImageA, subject_id |-> "sub01",
      subjects_dir |-> d] : d \in {Omitted, Given(WorkDir)}}
Calls == BetCalls \cup FastCalls \cup FlirtCalls \cup Dwi2fodCalls \cup ReconCalls

NoReq == [tool |-> "none"]

\* The parameters of the tool function after the defaults of its signature.
Bind(c) ==
    CASE c.tool = BET ->
           [tool |-> BET, input_file |-> c.input_file,
            output_prefix |-> Arg(c.output_prefix, "brain_extracted"),
            fractional_intensity |-> Arg(c.fractional_intensity, DEFAULT_FRACTIONAL_INTENSITY),
            generate_binary_mask |-> Arg(c.generate_binary_mask, TRUE)]
      [] c.tool = FAST ->
           [tool |-> FAST, input_file |-> c.input_file,
            output_prefix |-> Arg(c.output_prefix, "segmented"),
            tissue_classes |-> Arg(c.tissue_classes, DEFAULT_TISSUE_CLASSES)]
      [] c.tool = FLIRT ->
           [tool |-> FLIRT, input_file |-> c.input_file, reference_file |-> c.reference_file,
            output_file |-> Arg(c.output_file, DEFAULT_OUTPUT_FILE),
            dof |-> Arg(c.dof, DEFAULT_DOF)]
      [] c.tool = DWI2FOD ->
           [tool |-> DWI2FOD, dwi_file |-> c.dwi_file, response_file |-> c.response_file,
            output_fod |-> Arg(c.output_fod, DEFAULT_OUTPUT_FOD),
            algorithm |-> Arg(c.algorithm, DEFAULT_ALGORITHM)]
      [] c.tool = RECON ->
           [tool |-> RECON, input_file |-> c.input_file, subject_id |-> c.subject_id,
            subjects_dir |-> Arg(c.subjects_dir, DEFAULT_SUBJECTS_DIR)]

\* ------------------------------------------------- the five tool functions
\* Only the first path argument checked (mutant of Checks).
ChecksFirstOnly(r) ==
    CASE r.tool = DWI2FOD -> <<[text |-> "DWI file not found: ", path |-> r.dwi_file]>>
      [] OTHER -> <<[text |-> "Input file not found: ", path |-> r.input_file]>>

\* "# Validate inputs": the checks of a tool in the order the code makes
\* them, each with the text of its error.
Checks(r) ==
    CASE r.tool = BET -> <<[text |-> "Input file not found: ", path |-> r.input_file]>>
      [] r.tool = FAST -> <<[text |-> "Input file not found: ", path |-> r.input_file]>>
      [] r.tool = FLIRT -> <<[text |-> "Input file not found: ", path |-> r.input_file],
                            [text |-> "Reference file not found: ", path |-> r.reference_file]>>
      [] r.tool = DWI2FOD -> <<[text |-> "DWI file not found: ", path |-> r.dwi_file],
                              [text |-> "Response file not found: ", path |-> r.response_file]>>
      [] r.tool = RECON -> <<[text |-> "Input file not found: ", path |-> r.input_file]>>

FailedChecks(f, r) == {k \in 1..Len(Checks(r)) : ~Exists(f, Checks(r)[k].path)}

\* A validation that reports the last failed check (mutant of FirstFailed).
LastFailed(f, r) == CHOOSE k \in FailedChecks(f, r) : \A j \in FailedChecks(f, r) : k >= j

FirstFailed(f, r) == CHOOSE k \in FailedChecks(f, r) : \A j \in FailedChecks(f, r) : k <= j

\* The FileNotFoundError of the first check that fails.
ValidationError(f, r) ==
    LET c == Checks(r)[FirstFailed(f, r)]
    IN  [type |-> "FileNotFoundError", msg |-> <<c.text, c.path>>, context |-> NoExc]

\* The directories a tool function calls mkdir on (none for FLIRT, dwi2fod).
MkdirTargets(r) ==
    CASE r.tool \in {BET, FAST} -> {OUTPUT_DIR}
      [] r.tool = RECON -> {r.subjects_dir}
      [] OTHER -> {}

\* No mkdir inside a try block (mutant of MkdirInTry).
MkdirOutsideTry(r) == FALSE

\* Whether the mkdir is inside the try block of the tool function.
MkdirInTry(r) == r.tool \in {BET, FAST}

\* The Path "/" operator on a directory and a relative name.
\* A join that puts the name in front of the directory (mutant of Join).
JoinSwapped(dir, name) == <<name>> \o dir

\* Path(dir) / name, os.path.join(dir, name).
Join(dir, name) == dir \o <<name>>

\* A registration whose cost function follows dof (mutant of flirt_params).
FlirtParamsCostByDof(r) ==
    [infile |-> r.input_file, reference |-> r.reference_file,
     outfile |-> r.output_file, dof |-> r.dof,
     cost |-> IF r.dof = DEFAULT_DOF THEN "corratio" ELSE "mutualinfo"]

\* flirt_params of fsl_flirt_registration.
flirt_params(r) ==
    [infile |-> r.input_file, reference |-> r.reference_file,
     outfile |-> r.output_file, dof |-> r.dof, cost |-> "corratio"]

\* The keyword arguments handed to niwrap.
Params(r) ==
    CASE r.tool = BET ->
           LET bet_params ==
                 [infile |-> r.input_file,
                  maskfile |-> Join(OUTPUT_DIR, <<r.output_prefix, ".nii.gz">>),
                  fractional_intensity |-> r.fractional_intensity]
           IN  IF r.generate_binary_mask
               THEN ("binary_mask" :> TRUE) @@ bet_params
               ELSE bet_params
      [] r.tool = FAST ->
           [infile |-> r.input_file, basename |-> Join(OUTPUT_DIR, r.output_prefix),
            classes |-> r.tissue_classes, bias_field |-> TRUE, probability_maps |-> TRUE]
      [] r.tool = FLIRT -> flirt_params(r)
      [] r.tool = DWI2FOD ->
           [algorithm |-> r.algorithm, dwi |-> r.dwi_file,
            response |-> r.response_file, fod |-> r.output_fod]
      [] r.tool = RECON ->
           [input_file |-> r.input_file, subject_id |-> r.subject_id,
            subjects_dir |-> r.subjects_dir, all |-> TRUE]

\* The niwrap function a tool function calls.
Collaborator(r) ==
    CASE r.tool = BET -> "niwrap.fsl.bet"
      [] r.tool = FAST -> "niwrap.fsl.fast"
      [] r.tool = FLIRT -> "niwrap.fsl.flirt"
      [] r.tool = DWI2FOD -> "niwrap.mrtrix3.dwi2fod"
      [] r.tool = RECON -> "niwrap.freesurfer.recon_all"

\* The text the except block of a tool function puts before str(e): the name
\* of the tool and the words after it.
FailText(r) ==
    CASE r.tool = BET -> <<"BET", " processing failed: ">>
      [] r.tool = FAST -> <<"FAST", " processing failed: ">>
      [] r.tool = FLIRT -> <<"FLIRT", " processing failed: ">>
      [] r.tool = DWI2FOD -> <<"dwi2fod", " processing failed: ">>
      [] r.tool = RECON -> <<"FreeSurfer recon-all", " failed: ">>

\* raise RuntimeError("... failed") from None (mutant of Wrap).
WrapNoCause(r, e) == [type |-> "RuntimeError", msg |-> <<FailText(r), <<>>>>, context |-> NoExc]

\* raise RuntimeError(f"... failed: {str(e)}") inside "except Exception as e":
\* the message holds str(e) and Python sets __context__ to e.
Wrap(r, e) == [type |-> "RuntimeError", msg |-> <<FailText(r), e.msg>>, context |-> e]

\* The attributes a result object of niwrap may expose, per tool: all of
\* them, only the one the tool function reads unconditionally, or none.
ResultShapes(r) ==
    CASE r.tool = BET -> {{"outfile", "binary_mask"}, {"outfile"}, {}}
      [] r.tool = FAST -> {{"outfile", "tissue_maps", "bias_field"}, {"outfile"}, {}}
      [] r.tool = FLIRT -> {{"outfile", "omat"}, {"outfile"}, {}}
      [] r.tool = DWI2FOD -> {{"fod"}, {}}
      [] r.tool = RECON -> {{}}

\* The value of an attribute of the result: a path chosen by niwrap.
Attr(r, a) == <<"niwrap", r.tool, a>>

\* getattr(result, a, None) whatever the default (mutant of GetAttr).
GetAttrOrNone(r, res, a, default) == IF a \in res THEN Attr(r, a) ELSE <<"None">>

\* getattr(result, a, default)
GetAttr(r, res, a, default) == IF a \in res THEN Attr(r, a) ELSE default

None == <<"None">>

\* The attributes read as result.<a>: a missing one raises AttributeError.
ReadAttrs(r) ==
    CASE r.tool \in {BET, FAST, FLIRT} -> {"outfile"}
      [] r.tool = DWI2FOD -> {"fod"}
      [] r.tool = RECON -> {}

AttributeError(r, res) ==
    [type |-> "AttributeError",
     msg |-> <<"object has no attribute ", CHOOSE a \in ReadAttrs(r) \ res : TRUE>>,
     context |-> NoExc]

\* output_data of a tool function, from its parameters and niwrap's result.
OutputData(r, res) ==
    CASE r.tool = BET ->
           LET output_data ==
                 [brain_image |-> Attr(r, "outfile"),
                  metadata |-> [tool |-> "FSL BET", parameters |-> Params(r),
                                container |-> "FSL Docker container"]]
           IN  IF r.generate_binary_mask /\ "binary_mask" \in res
               THEN ("brain_mask" :> Attr(r, "binary_mask")) @@ output_data
               ELSE output_data
      [] r.tool = FAST ->
           [segmented_image |-> Attr(r, "outfile"),
            tissue_maps |-> GetAttr(r, res, "tissue_maps", <<>>),
            bias_field |-> GetAttr(r, res, "bias_field", None),
            metadata |-> [tool |-> "FSL FAST", parameters |-> Params(r),
                          tissue_classes |-> r.tissue_classes]]
      [] r.tool = FLIRT ->
           [registered_image |-> Attr(r, "outfile"),
            transformation_matrix |-> GetAttr(r, res, "omat", None),
            metadata |-> [tool |-> "FSL FLIRT", parameters |-> Params(r), dof |-> r.dof]]
      [] r.tool = DWI2FOD ->
           [fod_image |-> Attr(r, "fod"),
            metadata |-> [tool |-> "MRTrix3 dwi2fod", parameters |-> Params(r),
                          algorithm |-> r.algorithm]]
      [] r.tool = RECON ->
           LET subject_dir == Join(r.subjects_dir, r.subject_id)
           IN  [subject_directory |-> subject_dir,
                surfaces |-> [left_pial |-> subject_dir \o <<"surf", "lh.pial">>,
                              right_pial |-> subject_dir \o <<"surf", "rh.pial">>,
                              left_white |-> subject_dir \o <<"surf", "lh.white">>,
                              right_white |-> subject_dir \o <<"surf", "rh.white">>],
                volumes |-> [brain |-> subject_dir \o <<"mri", "brain.mgz">>,
                             aseg |-> subject_dir \o <<"mri", "aseg.mgz">>,
                             aparc |-> subject_dir \o <<"mri", "aparc+aseg.mgz">>],
                metadata |-> [tool |-> "FreeSurfer recon-all", subject_id |-> r.subject_id,
                              subjects_dir |-> r.subjects_dir]]

\* The directory a tool's output goes to: the fixed output directory (BET,
\* FAST), the directory of output_file (FLIRT) or of output_fod (dwi2fod),
\* subjects_dir (recon-all).
DestDir(r) ==
    CASE r.tool \in {BET, FAST} -> OUTPUT_DIR
      [] r.tool = FLIRT -> Dirname(r.output_file)
      [] r.tool = DWI2FOD -> Dirname(r.output_fod)
      [] r.tool = RECON -> r.subjects_dir

\* The path arguments a tool function documents as its inputs.
RequiredPaths(r) ==
    CASE r.tool \in {BET, FAST, RECON} -> {r.input_file}
      [] r.tool = FLIRT -> {r.input_file, r.reference_file}
      [] r.tool = DWI2FOD -> {r.dwi_file, r.response_file}

Absent(f, r) == {p \in RequiredPaths(r) : ~Exists(f, p)}

\* An exception niwrap raises (bad parameters, container failure, tool error).
CollaboratorError(r) ==
    [type |-> "NiwrapError", msg |-> <<"execution failed: ", Collaborator(r)>>, context |-> NoExc]

\* mkdir without exist_ok (mutant of Prepare).
PrepareNoExistOk(f, r) ==
    IF MkdirTargets(r) = {}
    THEN [fs |-> f, log |-> <<>>, exc |-> NoExc]
    ELSE LET d == CHOOSE t \in MkdirTargets(r) : TRUE
             m == IF Kind(f, d) = "dir"
                  THEN [fs |-> f, exc |-> [type |-> "FileExistsError",
                                           msg |-> <<"File exists: ", d>>, context |-> NoExc]]
                  ELSE MkdirParents(f, d)
         IN  [fs |-> m.fs,
              log |-> <<[path |-> d, before |-> Kind(f, d), exc |-> m.exc.type,
                         blocked |-> \E n \in 1..Len(d) : Kind(f, SubSeq(d, 1, n)) = "file"]>>,
              exc |-> m.exc]

\* The mkdir calls of a tool function: the filesystem after them, what each
\* found and did, and the exception of the one that failed.
Prepare(f, r) ==
    IF MkdirTargets(r) = {}
    THEN [fs |-> f, log |-> <<>>, exc |-> NoExc]
    ELSE LET d == CHOOSE t \in MkdirTargets(r) : TRUE
             m == MkdirParents(f, d)
         IN  [fs |-> m.fs,
              log |-> <<[path |-> d, before |-> Kind(f, d), exc |-> m.exc.type,
                         blocked |-> \E n \in 1..Len(d) : Kind(f, SubSeq(d, 1, n)) = "file"]>>,
              exc |-> m.exc]

\* The directory prepared before the inputs are checked (mutant of
\* ValidatePrepare).
ValidatePrepareMkdirFirst(f, r) ==
    LET m == Prepare(f, r)
    IN  IF FailedChecks(f, r) # {}
        THEN [validation |-> "failed", fs |-> m.fs, log |-> m.log,
              exc |-> ValidationError(f, r), caught |-> FALSE]
        ELSE [validation |-> "passed", fs |-> m.fs, log |-> m.log,
              exc |-> m.exc, caught |-> MkdirInTry(r)]

\* A tool function from "# Validate inputs" to its next await: the outcome of
\* the checks, the filesystem and the mkdir calls, the exception raised, and
\* whether the except block of the function catches it.
\* A FLIRT that rejects a dof outside {6, 7, 9, 12} (mutant of
\* ValidatePrepare).
ValidatePrepareDofChecked(f, r) ==
    IF FailedChecks(f, r) # {}
    THEN [validation |-> "failed", fs |-> f, log |-> <<>>,
          exc |-> ValidationError(f, r), caught |-> FALSE]
    ELSE IF r.tool = FLIRT /\ r.dof \notin {6, 7, 9, 12}
    THEN [validation |-> "failed", fs |-> f, log |-> <<>>,
          exc |-> [type |-> "ValueError", msg |-> <<"Invalid dof: ", r.dof>>,
                   context |-> NoExc],
          caught |-> FALSE]
    ELSE LET m == Prepare(f, r)
         IN  [validation |-> "passed", fs |-> m.fs, log |-> m.log,
              exc |-> m.exc, caught |-> MkdirInTry(r)]

ValidatePrepare(f, r) ==
    IF FailedChecks(f, r) # {}
    THEN [validation |-> "failed", fs |-> f, log |-> <<>>,
          exc |-> ValidationError(f, r), caught |-> FALSE]
    ELSE LET m == Prepare(f, r)
         IN  [validation |-> "passed", fs |-> m.fs, log |-> m.log,
              exc |-> m.exc, caught |-> MkdirInTry(r)]

\* ------------------------------------------------------- the raw functions
\* str.replace('.nii.gz', '.mat') on the file names the calls use.
ReplaceExt(name) ==
    CASE name = "registered.nii.gz" -> "registered.mat"
      [] name = "out.nii.gz" -> "out.mat"
      [] OTHER -> name

ReplaceNiiGz(p) == [k \in DOMAIN p |-> ReplaceExt(p[k])]

\* The function of niwrap a raw function calls.
RawCollaborator(r) ==
    CASE r.tool = BET -> "niwrap.fsl.bet"
      [] r.tool = FAST -> "niwrap.fsl.fast"
      [] r.tool = FLIRT -> "niwrap.fsl.flirt"
      [] r.tool = DWI2FOD -> "niwrap.mrtrix.dwi2fod"
      [] r.tool = RECON -> "niwrap.freesurfer.recon_all"

\* The keyword arguments a raw function hands to niwrap.
RawParams(r) ==
    CASE r.tool = BET ->
           [infile |-> r.input_file,
            maskfile |-> Join(OUTPUT_DIR, <<r.output_prefix, ".nii.gz">>),
            fractional_intensity |-> r.fractional_intensity,
            binary_mask |-> r.generate_binary_mask]
      [] r.tool = FAST ->
           [in_files |-> <<r.input_file>>, number_classes |-> r.tissue_classes,
            out_basename |-> Join(OUTPUT_DIR, r.output_prefix),
            output_biasfield |-> TRUE, segments |-> TRUE]
      [] r.tool = FLIRT ->
           [in_file |-> r.input_file, reference |-> r.reference_file,
            out_file |-> r.output_file,
            out_matrix_file |-> ReplaceNiiGz(r.output_file),
            dof |-> r.dof, cost |-> "corratio"]
      [] OTHER -> Params(r)

\* The names output_data of a raw function reads that the function never
\* binds: bet_params, fast_params, flirt_params.
UnboundNames(r) ==
    CASE r.tool = BET -> {"bet_params"}
      [] r.tool = FAST -> {"fast_params"}
      [] r.tool = FLIRT -> {"flirt_params"}
      [] OTHER -> {}

NameError(r) ==
    [type |-> "NameError",
     msg |-> <<"name is not defined: ", CHOOSE n \in UnboundNames(r) : TRUE>>,
     context |-> NoExc]

\* What a raw function does with what niwrap did: [exc, output]. The dict
\* display reads the result's attribute before the parameters name.
RawShape(r, raised, res) ==
    IF raised THEN [exc |-> CollaboratorError(r), output |-> <<>>]
    ELSE IF ~(ReadAttrs(r) \subseteq res)
    THEN [exc |-> AttributeError(r, res), output |-> <<>>]
    ELSE IF UnboundNames(r) # {} THEN [exc |-> NameError(r), output |-> <<>>]
    ELSE [exc |-> NoExc, output |-> OutputData(r, res)]

\* A raw function from its first statement to its return or raise: there is
\* no await in it. [fs, calls, outcome].
RawRun(f, r, raised, res) ==
    IF FailedChecks(f, r) # {}
    THEN [fs |-> f, calls |-> <<>>,
          outcome |-> [kind |-> "raise", error |-> ValidationError(f, r)]]
    ELSE LET m == Prepare(f, r)
             sh == RawShape(r, raised, res)
             call == [fn |-> RawCollaborator(r), params |-> RawParams(r),
                      raised |-> raised, attrs |-> res]
         IN  IF m.exc # NoExc
             THEN [fs |-> m.fs, calls |-> <<>>,
                   outcome |-> [kind |-> "raise",
                                error |-> IF MkdirInTry(r) THEN Wrap(r, m.exc) ELSE m.exc]]
             ELSE IF sh.exc # NoExc
             THEN [fs |-> m.fs, calls |-> <<call>>,
                   outcome |-> [kind |-> "raise", error |-> Wrap(r, sh.exc)]]
             ELSE [fs |-> m.fs, calls |-> <<call>>,
                   outcome |-> [kind |-> "return", value |-> sh.output]]

NoRaw == [sent |-> NoReq, calls |-> <<>>, outcome |-> [kind |-> "none"]]

\* ------------------------------------------- workspace resource and prompt
Sessions == {"s1", "s2"}
EntryNames == {"t1.nii.gz", ".cache"}

\* What is at /tmp/neuroimaging_workspace/{session_id}: nothing, a file, or a
\* directory with its entries.
NoEntry == [kind |-> "absent", entries |-> {}]
FileEntry == [kind |-> "file", entries |-> {}]
DirEntry(names) == [kind |-> "dir", entries |-> names]

\* The sequences that enumerate a set, each element once.
Orders(S) ==
    {q \in [1..Cardinality(S) -> S] : \A x \in S : \E k \in DOMAIN q : q[k] = x}

\* list(workspace_path.glob("*")): the entries of a directory in the order
\* the operating system gives them, nothing for a file.
Glob(w, session_id) == Orders(w[session_id].entries)

\* A resource that makes the directory it does not find (mutant of
\* WorkspaceInfo).
WorkspaceInfoCreating(w, session_id, files) ==
    [ws |-> IF w[session_id].kind = "absent"
            THEN [w EXCEPT ![session_id] = DirEntry({})]
            ELSE w,
     text |-> <<"Workspace ", session_id, ":\nFiles:\n",
                [k \in DOMAIN files |-> <<"- ", files[k]>>]>>]

\* get_workspace_info: the workspace after it and the text it returns.
WorkspaceInfo(w, session_id, files) ==
    IF w[session_id].kind = "absent"
    THEN [ws |-> w, text |-> <<"Workspace ", session_id, " not found">>]
    ELSE [ws |-> w,
          text |-> <<"Workspace ", session_id, ":\nFiles:\n",
                     [k \in DOMAIN files |-> <<"- ", files[k]>>]>>]

\* The values a client sends as analysis_type.
AnalysisTypes == {"brain_extraction", "preprocessing", "diffusion", "tractography", ""}

\* The guides dict, each text by its first line.
guides ==
    [brain_extraction |->
        "Brain extraction is the first step in most neuroimaging analyses.",
     preprocessing |-> "Standard T1 preprocessing pipeline:",
     diffusion |-> "Diffusion MRI analysis workflow:"]

UnknownTypeText ==
    "Unknown analysis type. Available types: brain_extraction, preprocessing, diffusion"

\* guides[analysis_type] in place of guides.get (mutant of
\* neuroimaging_analysis_guide).
GuideBySubscript(analysis_type) ==
    IF analysis_type \in DOMAIN guides
    THEN [exc |-> NoExc, text |-> guides[analysis_type]]
    ELSE [exc |-> [type |-> "KeyError", msg |-> <<analysis_type>>, context |-> NoExc],
          text |-> <<>>]

\* neuroimaging_analysis_guide: guides.get(analysis_type, fallback).
neuroimaging_analysis_guide(analysis_type) ==
    IF analysis_type \in DOMAIN guides
    THEN [exc |-> NoExc, text |-> guides[analysis_type]]
    ELSE [exc |-> NoExc, text |-> UnknownTypeText]

NoReply == [op |-> "none"]

\* ------------------------------------------------------ the server object
\* The functions of server.py under @mcp.tool, in the order of the module.
ToolFunctions == <<BET, FAST, FLIRT, DWI2FOD, RECON>>

\* A registration that replaces what was registered (mutant of Register).
RegisterReplacing(tools, name) == {name}

\* @mcp.tool on a function: the function is registered under its own name.
Register(tools, name) == tools \cup {name}

\* The tools registered once the first n decorators have run.
RECURSIVE RegisteredAfter(_)
RegisteredAfter(n) ==
    IF n = 0 THEN {} ELSE Register(RegisteredAfter(n - 1), ToolFunctions[n])

\* No module imported yet.
NoServer == [tools |-> {}, session |-> "none"]

\* mcp = FastMCP(...) and the decorators of the module, before mcp.run().
ImportedServer == [tools |-> RegisteredAfter(Len(ToolFunctions)), session |-> "none"]

\* -------------------------------------------------------------------- state
VARIABLES
    fs,            \* the filesystem: tracked path -> "absent" | "file" | "dir"
    envSteps,      \* changes made to fs from outside the server so far
    pc,            \* where each caller's tool coroutine is
    req,           \* the bound parameters of the running (or last) invocation
    validation,    \* "pending" | "passed" | "failed" for that invocation
    absentAtCheck, \* the required paths that were absent when it was validated
    exc,           \* the exception the except block of the invocation caught
    pending,       \* output_data built, not yet returned
    outcome,       \* what the caller got: nothing yet, a return value, an exception
    mkdirLog,      \* the mkdir calls of the invocation, in order
    callLog,       \* the niwrap calls of the invocation, in order
    sent,          \* the call as the caller sent it, before the defaults
    runtime,       \* the execution runtime as module start left it, and the log
    raw,           \* the last call of a raw function: what was sent, done and got
    ws,            \* the workspace root: session id -> what is at its path
    reply,         \* the last answer of the workspace resource, the prompt or tools/list
    mcp            \* the FastMCP server object: registered tools, client session

vars == <<fs, envSteps, pc, req, validation, absentAtCheck, exc, pending, outcome,
          mkdirLog, callLog, sent, runtime, raw, ws, reply, mcp>>

NoOutcome == [kind |-> "none"]
Returned(v) == [kind |-> "return", value |-> v]
Raised(e) == [kind |-> "raise", error |-> e]
NoOutput == <<>>

\* Module start of the server has not run yet.
NotConfigured == [state |-> "unset", log |-> <<>>]

\* niwrap.use_docker() raising ends the start of the process (mutant of
\* ConfigureRuntime).
ConfigureRuntimeUncaught(raised) ==
    IF raised
    THEN [state |-> "crashed", log |-> <<>>]
    ELSE [state |-> "docker",
          log |-> <<[level |-> "info", msg |-> "Docker configured for NiWrap execution"]>>]

\* "# Configure NiWrap for containerized execution": try niwrap.use_docker(),
\* log the exception as a warning.
ConfigureRuntime(raised) ==
    IF raised
    THEN [state |-> "failed",
          log |-> <<[level |-> "warning",
                     msg |-> <<"Docker configuration failed: ", "use_docker error">>]>>]
    ELSE [state |-> "docker",
          log |-> <<[level |-> "info", msg |-> "Docker configured for NiWrap execution"]>>]

\* The module was imported to its end: the server serves calls.
Started == runtime.state \in {"docker", "failed"}

Init ==
    /\ fs = [p \in FsPaths |-> IF p \in {ImageA, ImageB} THEN "file" ELSE "absent"]
    /\ envSteps = 0
    /\ pc = [i \in Callers |-> "idle"]
    /\ req = [i \in Callers |-> NoReq]
    /\ validation = [i \in Callers |-> "pending"]
    /\ absentAtCheck = [i \in Callers |-> {}]
    /\ exc = [i \in Callers |-> NoExc]
    /\ pending = [i \in Callers |-> NoOutput]
    /\ outcome = [i \in Callers |-> NoOutcome]
    /\ mkdirLog = [i \in Callers |-> <<>>]
    /\ callLog = [i \in Callers |-> <<>>]
    /\ sent = [i \in Callers |-> NoReq]
    /\ raw = NoRaw
    /\ ws = [s \in Sessions |-> NoEntry]
    /\ reply = NoReply
    /\ mcp = NoServer
    /\ runtime = NotConfigured

\* The import of the module: the execution runtime is configured, or the
\* failure to configure it is logged.
Startup ==
    /\ runtime = NotConfigured
    /\ \E raised \in BOOLEAN : runtime' = ConfigureRuntime(raised)
    /\ mcp' = ImportedServer
    /\ UNCHANGED <<fs, envSteps, pc, req, validation, absentAtCheck, exc, pending, outcome,
                   mkdirLog, callLog, sent,
                   raw, ws, reply>>

\* A caller invokes a tool; the coroutine runs to its first await
\* (ctx.info "Starting ...").
Invoke(i, c) ==
    /\ Started
    /\ pc[i] \in {"idle", "done"}
    /\ sent' = [sent EXCEPT ![i] = c]
    /\ pc' = [pc EXCEPT ![i] = "entered"]
    /\ req' = [req EXCEPT ![i] = Bind(c)]
    /\ validation' = [validation EXCEPT ![i] = "pending"]
    /\ absentAtCheck' = [absentAtCheck EXCEPT ![i] = {}]
    /\ exc' = [exc EXCEPT ![i] = NoExc]
    /\ pending' = [pending EXCEPT ![i] = NoOutput]
    /\ outcome' = [outcome EXCEPT ![i] = NoOutcome]
    /\ mkdirLog' = [mkdirLog EXCEPT ![i] = <<>>]
    /\ callLog' = [callLog EXCEPT ![i] = <<>>]
    /\ UNCHANGED <<fs, envSteps, runtime,
                   raw, ws, reply, mcp>>

\* "# Validate inputs" and the preparation of the output directory, up to
\* the await of ctx.info "Running ..." (or of ctx.error in the except block).
Validate(i) ==
    /\ pc[i] = "entered"
    /\ LET v == ValidatePrepare(fs, req[i]) IN
       /\ validation' = [validation EXCEPT ![i] = v.validation]
       /\ absentAtCheck' = [absentAtCheck EXCEPT ![i] = Absent(fs, req[i])]
       /\ fs' = v.fs
       /\ mkdirLog' = [mkdirLog EXCEPT ![i] = v.log]
       /\ IF v.exc = NoExc
          THEN /\ pc' = [pc EXCEPT ![i] = "dispatch"]
               /\ UNCHANGED <<exc, outcome>>
          ELSE IF v.caught
          THEN /\ exc' = [exc EXCEPT ![i] = v.exc]
               /\ pc' = [pc EXCEPT ![i] = "handler"]
               /\ UNCHANGED outcome
          ELSE /\ outcome' = [outcome EXCEPT ![i] = Raised(v.exc)]
               /\ pc' = [pc EXCEPT ![i] = "done"]
               /\ UNCHANGED exc
    /\ UNCHANGED <<envSteps, req, pending, callLog, sent, runtime,
                   raw, ws, reply, mcp>>

\* A failed call answered with a mapping that holds the error (mutant of
\* Shape).
ShapePartial(r, raised, res) ==
    IF raised \/ ~(ReadAttrs(r) \subseteq res)
    THEN [exc |-> NoExc, output |-> [error |-> CollaboratorError(r).msg]]
    ELSE [exc |-> NoExc, output |-> OutputData(r, res)]

\* What the tool function does with what niwrap did: [exc, output].
Shape(r, raised, res) ==
    IF raised THEN [exc |-> CollaboratorError(r), output |-> NoOutput]
    ELSE IF ReadAttrs(r) \subseteq res THEN [exc |-> NoExc, output |-> OutputData(r, res)]
    ELSE [exc |-> AttributeError(r, res), output |-> NoOutput]

\* A niwrap call that is awaited: the coroutine is suspended with the call
\* made and its result not yet looked at (mutant of Dispatch).
DispatchAwaited(i) ==
    /\ pc[i] = "dispatch"
    /\ \E raised \in BOOLEAN, res \in ResultShapes(req[i]) :
         LET r == req[i]
         IN  /\ raised => res = {}
             /\ callLog' = [callLog EXCEPT ![i] =
                    Append(@, [fn |-> Collaborator(r), params |-> Params(r),
                               missing |-> Absent(fs, r),
                               dest |-> Kind(fs, DestDir(r)),
                               raised |-> raised, attrs |-> res])]
             /\ pc' = [pc EXCEPT ![i] = "completed"]
    /\ UNCHANGED <<fs, envSteps, req, validation, absentAtCheck, exc, pending, outcome,
                   mkdirLog, sent, runtime,
                   raw, ws, reply, mcp>>

\* The parameter mapping, the one call of niwrap and the shaping of
\* output_data, up to the await of ctx.info "... completed successfully" or
\* of ctx.error in the except block.  niwrap raises or returns a result.
Dispatch(i) ==
    /\ pc[i] = "dispatch"
    /\ \E raised \in BOOLEAN, res \in ResultShapes(req[i]) :
         LET r == req[i]
             s == Shape(r, raised, res)
         IN  /\ raised => res = {}
             /\ callLog' = [callLog EXCEPT ![i] =
                    Append(@, [fn |-> Collaborator(r), params |-> Params(r),
                               missing |-> Absent(fs, r),
                               dest |-> Kind(fs, DestDir(r)),
                               raised |-> raised, attrs |-> res])]
             /\ exc' = [exc EXCEPT ![i] = s.exc]
             /\ pending' = [pending EXCEPT ![i] = s.output]
             /\ pc' = [pc EXCEPT ![i] = IF s.exc = NoExc THEN "completed" ELSE "handler"]
    /\ UNCHANGED <<fs, envSteps, req, validation, absentAtCheck, outcome, mkdirLog, sent, runtime,
                   raw, ws, reply, mcp>>

\* return output_data
Return(i) ==
    /\ pc[i] = "completed"
    /\ outcome' = [outcome EXCEPT ![i] = Returned(pending[i])]
    /\ pc' = [pc EXCEPT ![i] = "done"]
    /\ UNCHANGED <<fs, envSteps, req, validation, absentAtCheck, exc, pending, mkdirLog, callLog,
                   sent, runtime,
                   raw, ws, reply, mcp>>

\* An except block that calls niwrap again (mutant of Reraise).
ReraiseRetry(i) ==
    /\ pc[i] = "handler"
    /\ pc' = [pc EXCEPT ![i] = "dispatch"]
    /\ UNCHANGED <<fs, envSteps, req, validation, absentAtCheck, exc, pending, outcome,
                   mkdirLog, callLog, sent, runtime,
                   raw, ws, reply, mcp>>

\* An except block that removes the directories the call prepared before it
\* raises (mutant of Reraise).
ReraiseCleanup(i) ==
    /\ pc[i] = "handler"
    /\ fs' = [p \in DOMAIN fs |->
                IF \E d \in MkdirTargets(req[i]) :
                      Len(p) >= Len(d) /\ SubSeq(p, 1, Len(d)) = d
                THEN "absent" ELSE fs[p]]
    /\ outcome' = [outcome EXCEPT ![i] = Raised(Wrap(req[i], exc[i]))]
    /\ pc' = [pc EXCEPT ![i] = "done"]
    /\ UNCHANGED <<envSteps, req, validation, absentAtCheck, exc, pending, mkdirLog, callLog,
                   sent, runtime, raw, ws, reply, mcp>>

\* The except block after its await of ctx.error: raise RuntimeError(...).
Reraise(i) ==
    /\ pc[i] = "handler"
    /\ outcome' = [outcome EXCEPT ![i] = Raised(Wrap(req[i], exc[i]))]
    /\ pc' = [pc EXCEPT ![i] = "done"]
    /\ UNCHANGED <<fs, envSteps, req, validation, absentAtCheck, exc, pending, mkdirLog, callLog,
                   sent, runtime,
                   raw, ws, reply, mcp>>

\* The rest of the machine removes a file or a directory tree ...
IsUnder(q, p) == Len(q) >= Len(p) /\ SubSeq(q, 1, Len(p)) = p

EnvRemove(p, budget) ==
    /\ envSteps < budget
    /\ Exists(fs, p)
    /\ fs' = [q \in FsPaths |-> IF IsUnder(q, p) THEN "absent" ELSE fs[q]]
    /\ envSteps' = envSteps + 1
    /\ UNCHANGED <<pc, req, validation, absentAtCheck, exc, pending, outcome, mkdirLog, callLog,
                   sent, runtime,
                   raw, ws, reply, mcp>>

\* ... or puts a file or a directory where there was nothing.
EnvCreate(p, k, budget) ==
    /\ envSteps < budget
    /\ ~Exists(fs, p)
    /\ Kind(fs, Parent(p)) = "dir"
    /\ fs' = [fs EXCEPT ![p] = k]
    /\ envSteps' = envSteps + 1
    /\ UNCHANGED <<pc, req, validation, absentAtCheck, exc, pending, outcome, mkdirLog, callLog,
                   sent, runtime,
                   raw, ws, reply, mcp>>

Step(i) == Validate(i) \/ Dispatch(i) \/ Return(i) \/ Reraise(i)

\* One caller invoking tools one after the other, on a changing filesystem.
Next ==
    \/ Startup
    \/ \E c \in Calls : Invoke("c1", c)
    \/ Validate("c1")
    \/ Dispatch("c1")
    \/ Return("c1")
    \/ Reraise("c1")
    \/ \E p \in FsPaths : EnvRemove(p, MaxEnvSteps)
    \/ \E p \in FsPaths, k \in {"file", "dir"} : EnvCreate(p, k, MaxEnvSteps)

Spec == Init /\ [][Next]_vars

\* The calls two callers make at the same time: a tool that calls mkdir in
\* its try block (BET), one that calls it before (recon-all) and one that
\* does not call it (FLIRT), each with its default options, so that two
\* invocations of a tool have the same output path.
ConcCalls ==
    {c \in Calls :
        /\ c.tool \in {BET, FLIRT, RECON}
        /\ \A a \in DOMAIN c :
              a \in {"output_prefix", "fractional_intensity", "generate_binary_mask",
                     "output_file", "dof", "subjects_dir"} => c[a] = Omitted}

\* Two callers; the event loop runs one coroutine at a time and switches at
\* the awaits.
ConcNext ==
    \/ \E i \in Callers, c \in ConcCalls : Invoke(i, c)
    \/ \E i \in Callers : Validate(i)
    \/ \E i \in Callers : Dispatch(i)
    \/ \E i \in Callers : Return(i)
    \/ \E i \in Callers : Reraise(i)
    \/ \E p \in FsPaths : EnvRemove(p, MaxConcEnvSteps)
    \/ \E p \in FsPaths, k \in {"file", "dir"} : EnvCreate(p, k, MaxConcEnvSteps)

\* The server after a start that configured the runtime.
ConcInit ==
    /\ fs = [p \in FsPaths |-> IF p \in {ImageA, ImageB} THEN "file" ELSE "absent"]
    /\ envSteps = 0
    /\ pc = [i \in Callers |-> "idle"]
    /\ req = [i \in Callers |-> NoReq]
    /\ validation = [i \in Callers |-> "pending"]
    /\ absentAtCheck = [i \in Callers |-> {}]
    /\ exc = [i \in Callers |-> NoExc]
    /\ pending = [i \in Callers |-> NoOutput]
    /\ outcome = [i \in Callers |-> NoOutcome]
    /\ mkdirLog = [i \in Callers |-> <<>>]
    /\ callLog = [i \in Callers |-> <<>>]
    /\ sent = [i \in Callers |-> NoReq]
    /\ raw = NoRaw
    /\ ws = [s \in Sessions |-> NoEntry]
    /\ reply = NoReply
    /\ mcp = ImportedServer
    /\ runtime = ConfigureRuntime(FALSE)

ConcSpec == ConcInit /\ [][ConcNext]_vars

\* A test awaits a raw function.
RawInvoke(c) ==
    /\ Started
    /\ \E raised \in BOOLEAN, res \in ResultShapes(Bind(c)) :
         /\ raised => res = {}
         /\ LET out == RawRun(fs, Bind(c), raised, res)
            IN  /\ fs' = out.fs
                /\ raw' = [sent |-> c, calls |-> out.calls, outcome |-> out.outcome]
    /\ UNCHANGED <<envSteps, pc, req, validation, absentAtCheck, exc, pending, outcome,
                   mkdirLog, callLog, sent, runtime, ws, reply, mcp>>

\* The raw functions called one after the other, on a changing filesystem.
RawNext ==
    \/ Startup
    \/ \E c \in Calls : RawInvoke(c)
    \/ \E p \in FsPaths : EnvRemove(p, MaxEnvSteps)
    \/ \E p \in FsPaths, k \in {"file", "dir"} : EnvCreate(p, k, MaxEnvSteps)

RawSpec == Init /\ [][RawNext]_vars

\* A client reads neuroimaging://workspace/{session_id}.
GetWorkspaceInfo(session_id) ==
    /\ Started
    /\ \E files \in Glob(ws, session_id) :
         LET out == WorkspaceInfo(ws, session_id, files)
         IN  /\ ws' = out.ws
             /\ reply' = [op |-> "resource", arg |-> session_id, text |-> out.text,
                          before |-> ws, after |-> out.ws]
    /\ UNCHANGED <<fs, envSteps, pc, req, validation, absentAtCheck, exc, pending, outcome,
                   mkdirLog, callLog, sent, runtime, raw, mcp>>

\* A client asks for the prompt neuroimaging_analysis_guide.
Prompt(analysis_type) ==
    /\ Started
    /\ LET out == neuroimaging_analysis_guide(analysis_type)
       IN  reply' = [op |-> "prompt", arg |-> analysis_type, text |-> out.text,
                     exc |-> out.exc]
    /\ UNCHANGED <<fs, envSteps, pc, req, validation, absentAtCheck, exc, pending, outcome,
                   mkdirLog, callLog, sent, runtime, raw, ws, mcp>>

\* The rest of the machine makes a session's path a file or an empty
\* directory, ...
WsCreate(session_id, entry) ==
    /\ ws[session_id].kind = "absent"
    /\ ws' = [ws EXCEPT ![session_id] = entry]
    /\ UNCHANGED <<fs, envSteps, pc, req, validation, absentAtCheck, exc, pending, outcome,
                   mkdirLog, callLog, sent, runtime, raw, reply, mcp>>

\* ... puts an entry into a session's directory, ...
WsPut(session_id, name) ==
    /\ ws[session_id].kind = "dir"
    /\ name \notin ws[session_id].entries
    /\ ws' = [ws EXCEPT ![session_id] = DirEntry(@.entries \cup {name})]
    /\ UNCHANGED <<fs, envSteps, pc, req, validation, absentAtCheck, exc, pending, outcome,
                   mkdirLog, callLog, sent, runtime, raw, reply, mcp>>

\* ... or removes what is at a session's path.
WsRemove(session_id) ==
    /\ ws[session_id].kind # "absent"
    /\ ws' = [ws EXCEPT ![session_id] = NoEntry]
    /\ UNCHANGED <<fs, envSteps, pc, req, validation, absentAtCheck, exc, pending, outcome,
                   mkdirLog, callLog, sent, runtime, raw, reply, mcp>>

\* The resource and the prompt, on a workspace root that changes.
WsNext ==
    \/ Startup
    \/ \E session_id \in Sessions : GetWorkspaceInfo(session_id)
    \/ \E analysis_type \in AnalysisTypes : Prompt(analysis_type)
    \/ \E session_id \in Sessions, entry \in {FileEntry, DirEntry({})} :
          WsCreate(session_id, entry)
    \/ \E session_id \in Sessions, name \in EntryNames : WsPut(session_id, name)
    \/ \E session_id \in Sessions : WsRemove(session_id)

WsSpec == Init /\ [][WsNext]_vars

\* The client's initialize request is answered.
Initialize ==
    /\ Started
    /\ mcp.session = "none"
    /\ mcp' = [mcp EXCEPT !.session = "initializing"]
    /\ UNCHANGED <<fs, envSteps, pc, req, validation, absentAtCheck, exc, pending, outcome,
                   mkdirLog, callLog, sent, runtime, raw, ws, reply>>

\* The client's notifications/initialized arrives.
Initialized ==
    /\ mcp.session = "initializing"
    /\ mcp' = [mcp EXCEPT !.session = "ready"]
    /\ UNCHANGED <<fs, envSteps, pc, req, validation, absentAtCheck, exc, pending, outcome,
                   mkdirLog, callLog, sent, runtime, raw, ws, reply>>

\* tools/list in an initialized session: the names of the registered tools.
ToolsList ==
    /\ mcp.session = "ready"
    /\ reply' = [op |-> "tools/list", tools |-> mcp.tools]
    /\ UNCHANGED <<fs, envSteps, pc, req, validation, absentAtCheck, exc, pending, outcome,
                   mkdirLog, callLog, sent, runtime, raw, ws, mcp>>

\* The client closes the session; the server process goes on.
Disconnect ==
    /\ mcp.session # "none"
    /\ mcp' = [mcp EXCEPT !.session = "none"]
    /\ UNCHANGED <<fs, envSteps, pc, req, validation, absentAtCheck, exc, pending, outcome,
                   mkdirLog, callLog, sent, runtime, raw, ws, reply>>

\* A client session over the life of the server: the handshake, tools/list,
\* tool calls with default options, the resource and the prompt.
McpNext ==
    \/ Startup
    \/ Initialize
    \/ Initialized
    \/ ToolsList
    \/ Disconnect
    \/ \E c \in ConcCalls : Invoke("c1", c)
    \/ Validate("c1")
    \/ Dispatch("c1")
    \/ Return("c1")
    \/ Reraise("c1")
    \/ \E session_id \in Sessions : GetWorkspaceInfo(session_id)
    \/ \E analysis_type \in AnalysisTypes : Prompt(analysis_type)

McpSpec == Init /\ [][McpNext]_vars

\* ================================================================== claims

\* C1: a call whose validation finds a required input path missing fails
\* (an exception reaches the caller) and that invocation has made no mkdir
\* call and no niwrap call, in any state its failure is visible in.
C1_MissingInputNoSideEffect ==
    \A i \in Callers :
        validation[i] = "failed" =>
            /\ pc[i] = "done"
            /\ outcome[i].kind = "raise"
            /\ mkdirLog[i] = <<>>
            /\ callLog[i] = <<>>

\* A recon-all call has failed validation while its subjects_dir is absent.
C1_Witness ==
    \E i \in Callers :
        /\ validation[i] = "failed"
        /\ req[i].tool = RECON
        /\ ~Exists(fs, req[i].subjects_dir)

\* The path arguments in the order of the signature, each with the role the
\* error names it by, and the words of the error of each role.
RolePaths(r) ==
    CASE r.tool \in {BET, FAST, RECON} -> <<[role |-> "input", path |-> r.input_file]>>
      [] r.tool = FLIRT -> <<[role |-> "input", path |-> r.input_file],
                            [role |-> "reference", path |-> r.reference_file]>>
      [] r.tool = DWI2FOD -> <<[role |-> "DWI", path |-> r.dwi_file],
                              [role |-> "response", path |-> r.response_file]>>

RoleText(role) ==
    CASE role = "input" -> "Input file not found: "
      [] role = "reference" -> "Reference file not found: "
      [] role = "DWI" -> "DWI file not found: "
      [] role = "response" -> "Response file not found: "

FirstAbsent(r, absent) ==
    LET ks == {k \in 1..Len(RolePaths(r)) : RolePaths(r)[k].path \in absent}
    IN  RolePaths(r)[CHOOSE k \in ks : \A j \in ks : k <= j]

\* C2: the error of a failed validation is a FileNotFoundError whose message
\* names the role of the first required path (in signature order) that was
\* absent when the call was validated, and carries that path; a dwi2fod call
\* whose DWI file was absent names the DWI path even if the response file was
\* absent too.
C2_ErrorNamesFirstMissingPath ==
    \A i \in Callers :
        validation[i] = "failed" =>
            /\ absentAtCheck[i] # {}
            /\ outcome[i].kind = "raise"
            /\ outcome[i].error.type = "FileNotFoundError"
            /\ LET m == FirstAbsent(req[i], absentAtCheck[i])
               IN  outcome[i].error.msg = <<RoleText(m.role), m.path>>
            /\ (req[i].tool = DWI2FOD /\ req[i].dwi_file \in absentAtCheck[i]
                   => outcome[i].error.msg = <<"DWI file not found: ", req[i].dwi_file>>)

\* A dwi2fod call failed on its missing DWI file while the response file exists.
C2_Witness ==
    \E i \in Callers :
        /\ req[i].tool = DWI2FOD
        /\ validation[i] = "failed"
        /\ absentAtCheck[i] = {req[i].dwi_file}
        /\ Exists(fs, req[i].response_file)
        /\ outcome[i].error.msg[2] = req[i].dwi_file

\* The name of each tool in its metadata record.
MetadataTool(tool) ==
    CASE tool = BET -> "FSL BET"
      [] tool = FAST -> "FSL FAST"
      [] tool = FLIRT -> "FSL FLIRT"
      [] tool = DWI2FOD -> "MRTrix3 dwi2fod"
      [] tool = RECON -> "FreeSurfer recon-all"

\* C3: the metadata of every returned response names the invoked tool and
\* has a "parameters" field equal to the mapping passed to niwrap in that
\* call.
C3_MetadataToolAndParameters ==
    \A i \in Callers :
        outcome[i].kind = "return" =>
            /\ Len(callLog[i]) = 1
            /\ outcome[i].value.metadata.tool = MetadataTool(req[i].tool)
            /\ "parameters" \in DOMAIN outcome[i].value.metadata
            /\ outcome[i].value.metadata.parameters = callLog[i][1].params

\* C4: whenever niwrap is called, the destination directory of the call's
\* output exists.
C4_DestDirExistsAtCall ==
    \A i \in Callers :
        \A k \in DOMAIN callLog[i] : callLog[i][k].dest = "dir"

MkdirSucceeded(i) == \A k \in DOMAIN mkdirLog[i] : mkdirLog[i][k].exc = "None"

\* C5: an invocation calls niwrap at most once; once it is past the call
\* site with validation passed and every mkdir succeeded it has called
\* niwrap exactly once; and after niwrap raised, the invocation goes to its
\* except block and ends with an exception, without another call.
C5_CollaboratorCalledOnce ==
    \A i \in Callers :
        /\ Len(callLog[i]) <= 1
        /\ (pc[i] \in {"completed", "handler", "done"} /\ validation[i] = "passed"
               /\ MkdirSucceeded(i)
               => Len(callLog[i]) = 1)
        /\ (callLog[i] # <<>> /\ callLog[i][1].raised
               => /\ pc[i] \in {"handler", "done"}
                  /\ pc[i] = "done" => outcome[i].kind = "raise")

\* An invocation has ended with an exception after its one niwrap call raised.
C5_Witness ==
    \E i \in Callers :
        /\ pc[i] = "done"
        /\ Len(callLog[i]) = 1
        /\ callLog[i][1].raised
        /\ outcome[i].kind = "raise"

\* The name a tool's wrapped error carries.
ToolLabel(tool) ==
    CASE tool = BET -> "BET"
      [] tool = FAST -> "FAST"
      [] tool = FLIRT -> "FLIRT"
      [] tool = DWI2FOD -> "dwi2fod"
      [] tool = RECON -> "FreeSurfer recon-all"

IsWrapped(i) ==
    /\ outcome[i].error.type = "RuntimeError"
    /\ outcome[i].error.msg[1][1] = ToolLabel(req[i].tool)

C7_CauseRetained ==
    \A i \in Callers :
        outcome[i].kind = "raise" /\ outcome[i].error.type = "RuntimeError" =>
            /\ exc[i] # NoExc
            /\ outcome[i].error.context = exc[i]
            /\ outcome[i].error.msg[2] = exc[i].msg
            /\ (callLog[i] # <<>> /\ callLog[i][1].raised => exc[i].type = "NiwrapError")
            /\ (~MkdirSucceeded(i) => exc[i].type = mkdirLog[i][1].exc)

\* A call has ended with a wrapped error whose cause is niwrap's exception.
C7_Witness ==
    \E i \in Callers :
        /\ outcome[i].kind = "raise"
        /\ outcome[i].error.type = "RuntimeError"
        /\ outcome[i].error.context.type = "NiwrapError"

\* The result fields a response cannot do without.
RequiredFields(tool) ==
    CASE tool \in {BET, FAST, FLIRT} -> {"outfile"}
      [] tool = DWI2FOD -> {"fod"}
      [] tool = RECON -> {}

\* A stage of the invocation failed: validation, mkdir, the niwrap call, or
\* the reading of a required field of its result.
StageFailed(i) ==
    \/ validation[i] = "failed"
    \/ ~MkdirSucceeded(i)
    \/ \E k \in DOMAIN callLog[i] :
          \/ callLog[i][k].raised
          \/ ~(RequiredFields(req[i].tool) \subseteq callLog[i][k].attrs)

\* C8: a finished call in which a stage failed delivers an exception and no
\* output mapping (none was built, none is returned); a call that returns a
\* mapping had no failed stage.
C8_FailureYieldsOnlyError ==
    \A i \in Callers :
        pc[i] = "done" =>
            /\ outcome[i].kind \in {"raise", "return"}
            /\ (StageFailed(i) => outcome[i].kind = "raise")
            /\ (outcome[i].kind = "raise"
                   => "value" \notin DOMAIN outcome[i] /\ pending[i] = NoOutput)

\* niwrap returned a result without the required field and the call ended
\* with an exception.
C8_Witness ==
    \E i \in Callers :
        /\ pc[i] = "done"
        /\ callLog[i] # <<>>
        /\ ~callLog[i][1].raised
        /\ ~(RequiredFields(req[i].tool) \subseteq callLog[i][1].attrs)
        /\ outcome[i].kind = "raise"

\* C9 as stated: when niwrap is called, every required path of the call
\* exists.
C9_PathsExistAtDispatch ==
    \A i \in Callers :
        \A k \in DOMAIN callLog[i] : callLog[i][k].missing = {}

\* C9 amended: when niwrap is called, every required path of the call
\* existed when the call was validated; a path removed between the
\* validation and the call is not checked again.
C9_PathsExistedAtValidation ==
    \A i \in Callers :
        callLog[i] # <<>> => validation[i] = "passed" /\ absentAtCheck[i] = {}

\* niwrap was called with a required path that existed at validation and
\* was gone at the call.
C9_Witness ==
    \E i \in Callers :
        /\ callLog[i] # <<>>
        /\ callLog[i][1].missing # {}
        /\ absentAtCheck[i] = {}

NotBlocked(i) == \A k \in DOMAIN mkdirLog[i] : ~mkdirLog[i][k].blocked

\* C10: a running invocation always has its next step enabled and a caller
\* can always invoke, whatever the other caller's invocation is doing; an
\* invocation that passed validation and found no file in the way of its
\* directory gets through mkdir (also when the other invocation has made the
\* directory) and, once finished, has called niwrap.
C10_InvocationsIndependent ==
    \A i \in Callers :
        /\ (pc[i] \in {"entered", "dispatch", "completed", "handler"} => ENABLED Step(i))
        /\ (pc[i] \in {"idle", "done"} => ENABLED (\E c \in ConcCalls : Invoke(i, c)))
        /\ (validation[i] = "passed" /\ NotBlocked(i) => MkdirSucceeded(i))
        /\ (pc[i] = "done" /\ validation[i] = "passed" /\ NotBlocked(i)
               => Len(callLog[i]) = 1)

\* Two invocations of BET with the same parameters are in flight together,
\* one made the output directory, the other found it, both called niwrap.
C10_Witness ==
    \E i, j \in Callers :
        /\ i # j
        /\ req[i] = req[j]
        /\ req[i].tool = BET
        /\ pc[i] = "completed" /\ pc[j] = "completed"
        /\ mkdirLog[i][1].before = "absent"
        /\ mkdirLog[j][1].before = "dir"
        /\ Len(callLog[i]) = 1 /\ Len(callLog[j]) = 1

\* C11 as stated: no other invocation takes a step while an invocation is
\* between its validation and its niwrap call.
C11_NoStepBetweenValidationAndCall ==
    [][\A i \in Callers :
          pc[i] = "dispatch" => \A j \in Callers \ {i} : pc'[j] = pc[j]]_vars

\* C11 amended: an invocation is suspended only at its awaits of ctx.info
\* and ctx.error: after entry (nothing validated), between validation with
\* mkdir and the niwrap call (validated, nothing called), after the shaping
\* of the result (output built, nothing returned) and in the except block
\* (exception caught, nothing raised); it is never suspended in the niwrap
\* call, whose result is shaped in the step that makes the call.
C11_SuspendedAtAwaitsOnly ==
    \A i \in Callers :
        /\ (pc[i] = "entered" => validation[i] = "pending" /\ callLog[i] = <<>>)
        /\ (pc[i] = "dispatch"
               => validation[i] = "passed" /\ MkdirSucceeded(i) /\ callLog[i] = <<>>)
        /\ (pc[i] = "completed"
               => pending[i] # NoOutput /\ exc[i] = NoExc /\ outcome[i] = NoOutcome)
        /\ (pc[i] = "handler"
               => pending[i] = NoOutput /\ exc[i] # NoExc /\ outcome[i] = NoOutcome)
        /\ (callLog[i] # <<>> => pending[i] # NoOutput \/ exc[i] # NoExc)

\* Two invocations are both between their validation and their niwrap call:
\* the second was validated while the first was suspended there.
C11_Witness ==
    \E i, j \in Callers :
        /\ i # j
        /\ pc[i] = "dispatch" /\ pc[j] = "dispatch"
        /\ validation[i] = "passed" /\ validation[j] = "passed"

\* The value an invocation works with for an optional argument: what the
\* caller sent, or the default the tool documents.
Supplied(a, default) == IF a.given THEN a.v ELSE default

\* The niwrap call of invocation i was made, returned, and its result has
\* the attribute the tool function reads.
Succeeded(i) ==
    /\ Len(callLog[i]) = 1
    /\ ~callLog[i][1].raised
    /\ ReadAttrs(req[i]) \subseteq callLog[i][1].attrs

\* C12: FLIRT does not validate dof: whatever integer the caller supplies is
\* the dof passed to niwrap and the dof recorded in the metadata, and a
\* FLIRT call that ends without a niwrap call ended on a missing input file.
C12_DofNotValidated ==
    \A i \in Callers :
        sent[i].tool = FLIRT /\ sent[i].dof.given =>
            /\ \A k \in DOMAIN callLog[i] : callLog[i][k].params.dof = sent[i].dof.v
            /\ (pending[i] # NoOutput => pending[i].metadata.dof = sent[i].dof.v)
            /\ (outcome[i].kind = "return"
                   => outcome[i].value.metadata.dof = sent[i].dof.v)
            /\ (pc[i] \in {"handler", "done"} /\ callLog[i] = <<>>
                   => /\ absentAtCheck[i] # {}
                      /\ outcome[i].kind = "raise"
                      /\ outcome[i].error.type = "FileNotFoundError")
            /\ (pc[i] # "entered" /\ absentAtCheck[i] = {} /\ pc[i] # "dispatch"
                   => Len(callLog[i]) = 1)

\* A FLIRT call with a dof outside {6, 7, 9, 12} has returned a response.
C12_Witness ==
    \E i \in Callers :
        /\ sent[i].tool = FLIRT /\ sent[i].dof.given
        /\ sent[i].dof.v \notin {6, 7, 9, 12}
        /\ outcome[i].kind = "return"
        /\ callLog[i][1].params.dof = sent[i].dof.v

\* C13: a returned recon-all response has subject_directory =
\* subjects_dir / subject_id, the four surfaces under its surf and the three
\* volumes under its mri, computed from the two arguments alone, whatever the
\* filesystem holds after the call.
C13_ReconPathsFromArguments ==
    \A i \in Callers :
        sent[i].tool = RECON /\ outcome[i].kind = "return" =>
            LET sd == Supplied(sent[i].subjects_dir, DEFAULT_SUBJECTS_DIR)
                    \o <<sent[i].subject_id>>
                v == outcome[i].value
            IN  /\ v.subject_directory = sd
                /\ v.surfaces = [left_pial |-> sd \o <<"surf", "lh.pial">>,
                                 right_pial |-> sd \o <<"surf", "rh.pial">>,
                                 left_white |-> sd \o <<"surf", "lh.white">>,
                                 right_white |-> sd \o <<"surf", "rh.white">>]
                /\ v.volumes = [brain |-> sd \o <<"mri", "brain.mgz">>,
                                aseg |-> sd \o <<"mri", "aseg.mgz">>,
                                aparc |-> sd \o <<"mri", "aparc+aseg.mgz">>]

\* A recon-all call has returned its paths while the subjects directory is
\* not there: none of the returned files exists.
C13_Witness ==
    \E i \in Callers :
        /\ sent[i].tool = RECON /\ outcome[i].kind = "return"
        /\ ~Exists(fs, req[i].subjects_dir)

\* C14: a BET call whose niwrap call succeeded builds a response with a
\* brain_image path and a metadata record whose tool is "FSL BET" and whose
\* parameters record the fractional_intensity the caller supplied, and that
\* response is what is returned.
C14_BetResponse ==
    \A i \in Callers :
        sent[i].tool = BET /\ Succeeded(i) =>
            /\ pending[i] # NoOutput
            /\ "brain_image" \in DOMAIN pending[i]
            /\ pending[i].brain_image = Attr(req[i], "outfile")
            /\ pending[i].metadata.tool = "FSL BET"
            /\ pending[i].metadata.parameters.fractional_intensity
                   = Supplied(sent[i].fractional_intensity, DEFAULT_FRACTIONAL_INTENSITY)
            /\ (pc[i] = "done" => outcome[i] = Returned(pending[i]))

\* A BET call with a fractional_intensity other than the default has
\* returned.
C14_Witness ==
    \E i \in Callers :
        /\ sent[i].tool = BET /\ Succeeded(i)
        /\ sent[i].fractional_intensity.given
        /\ sent[i].fractional_intensity.v # DEFAULT_FRACTIONAL_INTENSITY
        /\ outcome[i].kind = "return"

\* C15: a FLIRT call whose niwrap call succeeded records in its metadata
\* the dof used (12 when the caller gave none) and, in the recorded
\* parameters, cost "corratio", whatever the arguments.
C15_FlirtDofAndCost ==
    \A i \in Callers :
        sent[i].tool = FLIRT /\ Succeeded(i) =>
            /\ pending[i] # NoOutput
            /\ pending[i].metadata.dof = Supplied(sent[i].dof, 12)
            /\ pending[i].metadata.parameters.dof = Supplied(sent[i].dof, 12)
            /\ pending[i].metadata.parameters.cost = "corratio"
            /\ callLog[i][1].params.cost = "corratio"
            /\ (pc[i] = "done" => outcome[i] = Returned(pending[i]))

\* A FLIRT call without dof has returned a response that records dof 12.
C15_Witness ==
    \E i \in Callers :
        /\ sent[i].tool = FLIRT /\ ~sent[i].dof.given
        /\ Succeeded(i) /\ outcome[i].kind = "return"
        /\ outcome[i].value.metadata.dof = 12

\* Where the exception an invocation ended with comes from.
ErrorStages(i) ==
    (IF validation[i] = "failed" THEN {"input"} ELSE {})
        \cup (IF MkdirSucceeded(i) THEN {} ELSE {"mkdir"})
        \cup (IF callLog[i] # <<>> THEN {"execution"} ELSE {})

RawSucceeded ==
    /\ Len(raw.calls) = 1
    /\ ~raw.calls[1].raised
    /\ ReadAttrs(Bind(raw.sent)) \subseteq raw.calls[1].attrs

\* C16: a raw BET, FAST, FLIRT or dwi2fod call whose inputs exist and whose
\* niwrap call returned successfully returns a mapping (with brain_image for
\* BET) and raises nothing.
C16_RawReturnsMapping ==
    raw.sent.tool \in {BET, FAST, FLIRT, DWI2FOD} /\ RawSucceeded =>
        /\ raw.outcome.kind = "return"
        /\ (raw.sent.tool = BET => "brain_image" \in DOMAIN raw.outcome.value)

\* The names a listing text shows, in its order.
ListedNames(text) == {text[4][k][2] : k \in DOMAIN text[4]}

\* C18: a read of the workspace resource leaves the workspace root and the
\* tools' filesystem as they were; for a session whose directory is absent
\* it returns "Workspace <id> not found", and otherwise a listing with one
\* line for each entry directly under the session's directory.
C18_WorkspaceReadOnly ==
    /\ [](reply.op = "resource" =>
            /\ reply.after = reply.before
            /\ IF reply.before[reply.arg].kind = "absent"
               THEN reply.text = <<"Workspace ", reply.arg, " not found">>
               ELSE /\ Len(reply.text) = 4
                    /\ reply.text[2] = reply.arg
                    /\ ListedNames(reply.text) = reply.before[reply.arg].entries
                    /\ Len(reply.text[4]) = Cardinality(reply.before[reply.arg].entries))
    /\ [][\A session_id \in Sessions :
             GetWorkspaceInfo(session_id) => ws' = ws /\ fs' = fs]_vars

\* The resource was read for an absent session and for a session with two
\* entries: the second read has listed both.
C18_Witness ==
    /\ reply.op = "resource"
    /\ reply.before[reply.arg].kind = "dir"
    /\ reply.before[reply.arg].entries = EntryNames
    /\ \E other \in Sessions : reply.before[other].kind = "absent"

\* C19: a read of the workspace resource for a session whose directory does
\* not exist brings the directory into existence.
C19_WorkspaceCreatedOnDemand ==
    reply.op = "resource" => reply.after[reply.arg].kind = "dir"

\* C20: neuroimaging_analysis_guide returns the guide of each of the three
\* analysis types and the one fallback text, which names the three types,
\* for every other value; it raises nothing and changes nothing.
C20_GuideTotal ==
    /\ [](reply.op = "prompt" =>
            /\ reply.exc = NoExc
            /\ reply.arg \in {"brain_extraction", "preprocessing", "diffusion"}
                  => reply.text = guides[reply.arg]
            /\ reply.arg \notin {"brain_extraction", "preprocessing", "diffusion"}
                  => reply.text = UnknownTypeText)
    /\ [][\A analysis_type \in AnalysisTypes :
             Prompt(analysis_type) => ws' = ws /\ fs' = fs /\ runtime' = runtime]_vars

\* The prompt was asked for an analysis type that has no guide.
C20_Witness ==
    /\ reply.op = "prompt"
    /\ reply.arg = "tractography"
    /\ reply.text = UnknownTypeText

\* C21: tools/list in an initialized session is answered with a set that
\* has fsl_bet_brain_extraction, fsl_fast_segmentation,
\* fsl_flirt_registration, mrtrix_dwi2fod and freesurfer_recon_all, and from
\* the import of the module on the registered set is that set, whatever the
\* server has done since.
C21_FiveToolsListed ==
    LET five == {"fsl_bet_brain_extraction", "fsl_fast_segmentation",
                 "fsl_flirt_registration", "mrtrix_dwi2fod", "freesurfer_recon_all"}
    IN  /\ (reply.op = "tools/list" => five \subseteq reply.tools)
        /\ (Started => mcp.tools = five)
        /\ (mcp.session = "ready" => ENABLED ToolsList)

\* tools/list was answered in an initialized session after a tool call had
\* ended with an error.
C21_Witness ==
    /\ reply.op = "tools/list"
    /\ Cardinality(reply.tools) = 5
    /\ mcp.session = "ready"
    /\ outcome["c1"].kind = "raise"

\* The option of each tool that C22 names: the argument the caller sends,
\* the keyword niwrap gets, and the stated default (0.5 is 5 tenths).
StatedOption(tool) ==
    CASE tool = BET -> [arg |-> "fractional_intensity", key |-> "fractional_intensity",
                        default |-> 5]
      [] tool = FAST -> [arg |-> "tissue_classes", key |-> "classes", default |-> 3]
      [] tool = FLIRT -> [arg |-> "dof", key |-> "dof", default |-> 12]
      [] tool = DWI2FOD -> [arg |-> "algorithm", key |-> "algorithm", default |-> "csd"]

\* C22: in every niwrap call of BET, FAST, FLIRT and dwi2fod the option is
\* the stated default (0.5, 3, 12, csd) when the caller omitted it and the
\* caller's value when the caller supplied it.
C22_DefaultsPassed ==
    \A i \in Callers :
        sent[i].tool \in {BET, FAST, FLIRT, DWI2FOD} =>
            LET o == StatedOption(sent[i].tool)
            IN  \A k \in DOMAIN callLog[i] :
                    callLog[i][k].params[o.key]
                        = IF sent[i][o.arg].given THEN sent[i][o.arg].v ELSE o.default

\* dwi2fod was called for a caller that sent no algorithm, with csd.
C22_Witness ==
    \E i \in Callers :
        /\ sent[i].tool = DWI2FOD
        /\ ~sent[i].algorithm.given
        /\ Len(callLog[i]) = 1
        /\ callLog[i][1].params.algorithm = "csd"

\* What can be at a required path: nothing, a well-formed image, an empty
\* file, a file that is no image, a directory.
ObjectKinds == {"absent", "file", "empty", "malformed", "dir"}

\* The filesystem with the objects g at the required paths of r.
WithObjects(f, r, g) == [p \in DOMAIN f |-> IF p \in DOMAIN g THEN g[p] ELSE f[p]]

\* C23: validation looks at presence only: whatever call is running, every
\* filesystem that has objects at the same required paths as the present
\* one, of whatever kind or content, gets the same validation outcome and
\* the same failed checks, and when every required path has an object the
\* call is accepted; a finished validation passed exactly when no required
\* path was absent.
C23_ValidationPresenceBased ==
    \A i \in Callers :
        req[i] # NoReq =>
            LET r == req[i]
                here == ValidatePrepare(fs, r)
            IN  /\ \A g \in [RequiredPaths(r) -> ObjectKinds] :
                      (\A p \in RequiredPaths(r) : (g[p] = "absent") <=> (fs[p] = "absent"))
                          => /\ ValidatePrepare(WithObjects(fs, r, g), r).validation
                                    = here.validation
                             /\ FailedChecks(WithObjects(fs, r, g), r) = FailedChecks(fs, r)
                /\ ((\A p \in RequiredPaths(r) : fs[p] # "absent")
                       => here.validation = "passed")
                /\ ((\E p \in RequiredPaths(r) : fs[p] = "absent")
                       => here.validation = "failed")
                /\ (validation[i] # "pending"
                       => (validation[i] = "passed" <=> absentAtCheck[i] = {}))

\* A call is about to be validated with a directory where its input image
\* should be, and the validation accepts it.
C23_Witness ==
    \E i \in Callers :
        /\ pc[i] = "entered"
        /\ \E p \in RequiredPaths(req[i]) : fs[p] = "dir"
        /\ ValidatePrepare(fs, req[i]).validation = "passed"

\* C24: a finished invocation delivered a result mapping, the
\* FileNotFoundError of a missing input, or the tool's wrapped execution
\* error, and nothing else, whichever stage failed.
C24_ThreeOutcomes ==
    \A i \in Callers :
        pc[i] = "done" =>
            \/ outcome[i].kind = "return"
            \/ /\ outcome[i].kind = "raise"
               /\ outcome[i].error.type = "FileNotFoundError"
               /\ validation[i] = "failed"
            \/ /\ outcome[i].kind = "raise"
               /\ IsWrapped(i)

\* C25: after a niwrap call that returned, a result with the required field
\* gives a response whatever optional fields it lacks: tissue_maps is the
\* empty list and bias_field is None for FAST, transformation_matrix is None
\* for FLIRT, and BET has brain_mask exactly when generate_binary_mask is
\* true and the result has binary_mask; binary_mask is among the parameters
\* of BET exactly when generate_binary_mask is true; a result without the
\* required field gives no mapping and the wrapped error.
C25_OptionalFieldsDefaulted ==
    \A i \in Callers :
        Len(callLog[i]) = 1 =>
            LET call == callLog[i][1]
                tool == sent[i].tool
                mask == Supplied(sent[i].generate_binary_mask, TRUE)
            IN  /\ (tool = BET => ("binary_mask" \in DOMAIN call.params <=> mask))
                /\ (~call.raised /\ RequiredFields(tool) \subseteq call.attrs
                       => /\ pending[i] # NoOutput
                          /\ (pc[i] = "done" => outcome[i] = Returned(pending[i]))
                          /\ (tool = FAST /\ "tissue_maps" \notin call.attrs
                                 => pending[i].tissue_maps = <<>>)
                          /\ (tool = FAST /\ "bias_field" \notin call.attrs
                                 => pending[i].bias_field = None)
                          /\ (tool = FLIRT /\ "omat" \notin call.attrs
                                 => pending[i].transformation_matrix = None)
                          /\ (tool = BET
                                 => ("brain_mask" \in DOMAIN pending[i]
                                        <=> mask /\ "binary_mask" \in call.attrs)))
                /\ (~call.raised /\ ~(RequiredFields(tool) \subseteq call.attrs)
                       => /\ pending[i] = NoOutput
                          /\ (pc[i] = "done"
                                 => outcome[i].kind = "raise" /\ IsWrapped(i)))

\* A FAST call has returned a response from a result that had only outfile.
C25_Witness ==
    \E i \in Callers :
        /\ sent[i].tool = FAST
        /\ Len(callLog[i]) = 1
        /\ callLog[i][1].attrs = {"outfile"}
        /\ outcome[i].kind = "return"
        /\ outcome[i].value.tissue_maps = <<>>
        /\ outcome[i].value.bias_field = None

\* C26: a BET, FAST or recon-all call whose niwrap call failed leaves the
\* directory it created or found: with no change from outside, the directory
\* exists once the call has ended with its error; the steps from the niwrap
\* call to the raise change nothing in the filesystem; and a call that is
\* entered with its inputs and its directory present gets through mkdir
\* without an error and without a change.
C26_NoRollback ==
    /\ [](\A i \in Callers :
            /\ (pc[i] = "done" /\ envSteps = 0 /\ callLog[i] # <<>>
                   => /\ outcome[i].kind = "raise" \/ ~callLog[i][1].raised
                      /\ \A d \in MkdirTargets(req[i]) : Kind(fs, d) = "dir")
            /\ (pc[i] = "entered" /\ Absent(fs, req[i]) = {}
                   /\ (\A d \in MkdirTargets(req[i]) : Kind(fs, d) = "dir")
                   => /\ ValidatePrepare(fs, req[i]).validation = "passed"
                      /\ ValidatePrepare(fs, req[i]).exc = NoExc
                      /\ ValidatePrepare(fs, req[i]).fs = fs))
    /\ [][\A i \in Callers : Dispatch(i) \/ Reraise(i) => fs' = fs]_vars

\* A call made its directory, its niwrap call failed, it ended with the
\* error, nothing outside touched the filesystem, and the directory is there.
C26_Witness ==
    \E i \in Callers :
        /\ pc[i] = "done" /\ envSteps = 0
        /\ req[i].tool \in {BET, FAST, RECON}
        /\ Len(callLog[i]) = 1 /\ callLog[i][1].raised
        /\ outcome[i].kind = "raise"
        /\ mkdirLog[i][1].before = "absent"
        /\ \A d \in MkdirTargets(req[i]) : Kind(fs, d) = "dir"

====
